---- MODULE Spec2Model ----
(***************************************************************************)
(* Curd Tracker backend (src/main.py): the four CRUD handlers of the       *)
(* /api/entries routes over one document-store collection, run by          *)
(* concurrent request workers.  Every store call (find, find_one,          *)
(* insert, update_one, delete_one) is one atomic step; a handler that      *)
(* makes two store calls takes two steps, and other requests may run       *)
(* between them.                                                           *)
(***************************************************************************)
EXTENDS Integers, Sequences, FiniteSets, TLC

VARIABLES
    db,       \* the store handle imported from database: "Database" or "None"
    coll,     \* db[COLL]: the set of stored documents
    nextId,   \* the store's ObjectId generator: ordinal of the next _id
    clock,    \* datetime.now(timezone.utc): the next timestamp handed out
    pc,       \* per worker: where its handler stands ("idle" between requests)
    local,    \* per worker: the handler's parameters and local variables
    resp,     \* the response sent last: route, status and body
    shadow,   \* history: per live _id, the field values that the inserts and
              \* the matched update_one calls, replayed in the order the store
              \* applied them, leave behind
    deleted   \* history: the _ids removed by a successful delete_one

vars == <<db, coll, nextId, clock, pc, local, resp, shadow, deleted>>

----------------------------------------------------------------------------
(* Bounds of the model *)

MaxCreates == 1    \* documents inserted in a run
MaxTicks == 2      \* timestamps drawn in a run

\* the request workers running side by side
Procs == {"w1", "w2"}

----------------------------------------------------------------------------
(* Values *)

COLL == "curdentry"

\* Python's None, and the empty dict: both falsy ("if not doc", "if not updates")
None == [k \in {} |-> 0]

Fields == {"date", "time", "quantity", "amount"}

\* Optional[T] of CurdEntryUpdate: <<>> is None (the default), <<v>> a value
Some(v) == <<v>>

\* CurdEntry bodies of POST.  date and time are strings, compared by the
\* store in string order; they are modelled by their rank in that order.
CreatePayloads ==
    { [date |-> 2, time |-> 1, quantity |-> 1, amount |-> 10],
      [date |-> 1, time |-> 2, quantity |-> 2, amount |-> 10] }

\* CurdEntryUpdate bodies of PUT
UpdatePayloads ==
    { [date |-> <<>>, time |-> <<>>, quantity |-> <<>>, amount |-> <<>>],
      [date |-> <<>>, time |-> <<>>, quantity |-> Some(5), amount |-> <<>>],
      [date |-> Some(1), time |-> Some(3), quantity |-> Some(7), amount |-> <<>>] }

----------------------------------------------------------------------------
(* bson.objectid.ObjectId *)

HexLower == {"0", "1", "2", "3", "4", "5", "6", "7", "8", "9",
             "a", "b", "c", "d", "e", "f"}
HexUpper == {"A", "B", "C", "D", "E", "F"}

ToLower(c) ==
    CASE c = "A" -> "a" [] c = "B" -> "b" [] c = "C" -> "c"
      [] c = "D" -> "d" [] c = "E" -> "e" [] c = "F" -> "f"
      [] OTHER -> c

ToUpper(c) ==
    CASE c = "a" -> "A" [] c = "b" -> "B" [] c = "c" -> "C"
      [] c = "d" -> "D" [] c = "e" -> "E" [] c = "f" -> "F"
      [] OTHER -> c

\* ObjectId(entry_id) raises unless entry_id is 24 hex characters
ObjectIdValid(s) ==
    /\ Len(s) = 24
    /\ \A i \in 1..24 : s[i] \in HexLower \cup HexUpper

\* the parsed id: the 12 bytes, written here as their lower-case hex digits
ObjectId(s) == [hex |-> [i \in 1..24 |-> ToLower(s[i])]]

\* str(oid)
Str(oid) == oid.hex

\* the n-th _id the store generates
GenDigit == <<"a", "b", "c", "d", "e", "f">>
GenId(n) == [hex |-> [i \in 1..24 |-> IF i = 24 THEN GenDigit[n] ELSE "0"]]

----------------------------------------------------------------------------
(* The document store: pymongo calls on db[COLL] *)

Matching(c, oid) == { d \in c : d._id = oid }

\* find_one({"_id": oid})
FindOne(c, oid) ==
    IF Matching(c, oid) = {} THEN None ELSE CHOOSE d \in Matching(c, oid) : TRUE

\* faulty variant: the document is replaced by the update document
SetReplace(doc, updates) == updates @@ [_id |-> doc._id]

\* faulty variant: a field already stored keeps its value
SetFirstWins(doc, updates) == doc @@ updates

\* {"$set": updates} applied to one document
Set(doc, updates) == updates @@ doc

\* update_one({"_id": oid}, {"$set": updates}): the collection afterwards
UpdateOne(c, oid, updates) ==
    IF Matching(c, oid) = {}
    THEN c
    ELSE LET d == FindOne(c, oid) IN (c \ {d}) \cup { Set(d, updates) }

\* faulty variant: the count is not looked at
MatchedCountOne(c, oid) == 1

\* res.matched_count
MatchedCount(c, oid) == IF Matching(c, oid) = {} THEN 0 ELSE 1

\* delete_one({"_id": oid}): the collection afterwards
DeleteOne(c, oid) ==
    IF Matching(c, oid) = {} THEN c ELSE c \ { FindOne(c, oid) }

\* faulty variant: the count is not looked at
DeletedCountOne(c, oid) == 1

\* res.deleted_count
DeletedCount(c, oid) == IF Matching(c, oid) = {} THEN 0 ELSE 1

\* faulty variant: the sort key is the date alone
BeforeDateOnly(a, b) == a.date >= b.date

\* sort([("date", -1), ("time", -1)]): a may stand right before b
Before(a, b) ==
    \/ a.date > b.date
    \/ a.date = b.date /\ a.time >= b.time

Orderings(c) ==
    { s \in [1..Cardinality(c) -> c] : \A i, j \in DOMAIN s : i # j => s[i] # s[j] }

\* find().sort(...): every order the store may return (ties in any order)
FindSorted(c) ==
    { s \in Orderings(c) : \A i \in 1..(Len(s) - 1) : Before(s[i], s[i + 1]) }

\* database.create_document(COLL, entry): the document inserted
NewDocument(entry, n, now) ==
    [_id |-> GenId(n), date |-> entry.date, time |-> entry.time,
     quantity |-> entry.quantity, amount |-> entry.amount, created_at |-> now]

\* The store outlives the process: the document an earlier POST left in it
SeedDocs ==
    { NewDocument([date |-> 2, time |-> 1, quantity |-> 1, amount |-> 10], 1, 1) }

FirstId == Cardinality(SeedDocs) + 1
FirstTick == Cardinality(SeedDocs) + 1

\* path parameters of PUT and DELETE: the ids the store can hand out, one of
\* them also in upper case, and two malformed ones
EntryIds ==
    { Str(GenId(n)) : n \in 1..(Cardinality(SeedDocs) + MaxCreates) }
      \cup { [i \in 1..24 |-> ToUpper(Str(GenId(1))[i])] }
      \cup { <<"x", "y", "z">>, [i \in 1..24 |-> "g"] }

----------------------------------------------------------------------------
(* Shaping of responses *)

DatetimeFields == {"created_at", "updated_at"}

\* datetime.isoformat()
isoformat(t) == [iso |-> t]

\* faulty variant: _id is left as it is
SerializeKeepId(doc) ==
    IF doc = None THEN doc
    ELSE [k \in DOMAIN doc |->
            IF k \in DatetimeFields THEN isoformat(doc[k]) ELSE doc[k]]

\* _serialize(doc): _id becomes id, a string; datetimes become ISO strings
_serialize(doc) ==
    IF doc = None THEN doc
    ELSE LET keys == (DOMAIN doc \ {"_id"})
                       \cup (IF "_id" \in DOMAIN doc THEN {"id"} ELSE {})
         IN  [k \in keys |->
                IF k = "id" THEN Str(doc._id)
                ELSE IF k \in DatetimeFields THEN isoformat(doc[k])
                ELSE doc[k]]

\* raise HTTPException(status_code=...)
HTTPException(status) == [status |-> status, body |-> <<>>]

\* a handler returning `result` under response_model=CurdEntryOut: None does
\* not validate as an entry and the framework answers 500
Respond(result) ==
    IF result = None THEN [status |-> 500, body |-> <<>>]
    ELSE [status |-> 200, body |-> <<result>>]

NoResp == [op |-> "none", status |-> 0, body |-> <<>>]

\* payload.model_dump(exclude_none=True)
ModelDump(payload) ==
    [k \in { f \in Fields : payload[f] # <<>> } |-> payload[k][1]]

\* faulty variant: the empty payload is not told apart
NotUpdatesNever(updates) == FALSE

\* `not updates`
NotUpdates(updates) == DOMAIN updates = {}

\* ObjectId(entry_id) for the path parameters it accepts, computed once
ParsedIds == [s \in { e \in EntryIds : ObjectIdValid(e) } |-> ObjectId(s)]

\* faulty variant: the id is looked at before the store handle
PrecheckIdFirst(d, entry_id) ==
    IF entry_id \notin DOMAIN ParsedIds THEN 400
    ELSE IF d = "None" THEN 503
    ELSE 200

\* the checks that open update_entry and delete_entry: the status raised,
\* 200 when the handler goes on
Precheck(d, entry_id) ==
    IF d = "None" THEN 503
    ELSE IF entry_id \notin DOMAIN ParsedIds THEN 400
    ELSE 200

----------------------------------------------------------------------------
(* The request handlers *)

NoLocal == [oid |-> None, updates |-> None]

Init ==
    /\ db \in {"Database", "None"}
    /\ coll = IF db = "None" THEN {} ELSE SeedDocs
    /\ nextId = FirstId
    /\ clock = FirstTick
    /\ pc = [p \in Procs |-> "idle"]
    /\ local = [p \in Procs |-> NoLocal]
    /\ resp = NoResp
    /\ shadow = coll
    /\ deleted = {}

\* history: one more write on the document `oid`, last write winning field
\* by field
Replay(sh, oid, updates) ==
    { IF d._id # oid THEN d
      ELSE [k \in DOMAIN d \cup DOMAIN updates |->
              IF k \in DOMAIN updates THEN updates[k] ELSE d[k]] : d \in sh }

\* the handler returns or raises: the response to the request goes out
Finish(p, op, r) ==
    /\ resp' = [op |-> op, status |-> r.status, body |-> r.body]
    /\ local' = [local EXCEPT ![p] = NoLocal]
    /\ pc' = [pc EXCEPT ![p] = "idle"]

\* the handler goes on to its next store call
Goto(p, label, vals) ==
    /\ pc' = [pc EXCEPT ![p] = label]
    /\ local' = [local EXCEPT ![p] = vals]
    /\ UNCHANGED resp

\* GET /api/entries
list_entries(p) ==
    /\ pc[p] = "idle"
    /\ IF db = "None"
       THEN Finish(p, "list", [status |-> 200, body |-> <<>>])
       ELSE \E docs \in FindSorted(coll) :
              Finish(p, "list", [status |-> 200,
                                 body |-> [i \in 1..Len(docs) |-> _serialize(docs[i])]])
    /\ UNCHANGED <<db, coll, nextId, clock, shadow, deleted>>

\* POST /api/entries, up to the return of create_document
create_entry(p, entry) ==
    /\ pc[p] = "idle"
    /\ IF db = "None"
       THEN /\ Finish(p, "create", HTTPException(503))
            /\ UNCHANGED <<coll, nextId, clock, shadow>>
       ELSE LET doc == NewDocument(entry, nextId, clock)
                new_id == Str(doc._id)
            IN  /\ nextId < FirstId + MaxCreates
                /\ clock < FirstTick + MaxTicks
                /\ coll' = coll \cup {doc}
                /\ shadow' = shadow \cup {doc}
                /\ nextId' = nextId + 1
                /\ clock' = clock + 1
                /\ Goto(p, "create_find",
                        [entry |-> entry, oid |-> ObjectId(new_id), updates |-> None])
    /\ UNCHANGED <<db, deleted>>

\* POST /api/entries: the read-back and the return
create_find(p) ==
    /\ pc[p] = "create_find"
    /\ Finish(p, "create", Respond(_serialize(FindOne(coll, local[p].oid))))
    /\ UNCHANGED <<db, coll, nextId, clock, shadow, deleted>>

\* PUT /api/entries/{entry_id}, up to the first store call
update_entry(p, entry_id, payload) ==
    /\ pc[p] = "idle"
    /\ LET st == Precheck(db, entry_id)
           updates == ModelDump(payload)
           oid == ParsedIds[entry_id]
       IN  IF st # 200
           THEN /\ Finish(p, "update", HTTPException(st))
                /\ UNCHANGED clock
           ELSE IF NotUpdates(updates)
           THEN /\ IF FindOne(coll, oid) = None
                   THEN Finish(p, "update", HTTPException(404))
                   ELSE Finish(p, "update", Respond(_serialize(FindOne(coll, oid))))
                /\ UNCHANGED clock
           ELSE /\ clock < FirstTick + MaxTicks
                /\ Goto(p, "update_one",
                        [oid |-> oid, updates |-> ("updated_at" :> clock) @@ updates])
                /\ clock' = clock + 1
    /\ UNCHANGED <<db, coll, nextId, shadow, deleted>>

\* PUT: update_one and the matched_count test
update_one(p) ==
    /\ pc[p] = "update_one"
    /\ coll' = UpdateOne(coll, local[p].oid, local[p].updates)
    /\ IF MatchedCount(coll, local[p].oid) = 0
       THEN /\ Finish(p, "update", HTTPException(404))
            /\ UNCHANGED shadow
       ELSE /\ Goto(p, "update_find", local[p])
            /\ shadow' = Replay(shadow, local[p].oid, local[p].updates)
    /\ UNCHANGED <<db, nextId, clock, deleted>>

\* PUT: the read-back and the return
update_find(p) ==
    /\ pc[p] = "update_find"
    /\ Finish(p, "update", Respond(_serialize(FindOne(coll, local[p].oid))))
    /\ UNCHANGED <<db, coll, nextId, clock, shadow, deleted>>

\* DELETE /api/entries/{entry_id}
delete_entry(p, entry_id) ==
    /\ pc[p] = "idle"
    /\ LET st == Precheck(db, entry_id)
           oid == ParsedIds[entry_id]
       IN  IF st # 200
           THEN /\ Finish(p, "delete", HTTPException(st))
                /\ UNCHANGED <<coll, shadow, deleted>>
           ELSE /\ coll' = DeleteOne(coll, oid)
                /\ IF DeletedCount(coll, oid) = 0
                   THEN /\ Finish(p, "delete", HTTPException(404))
                        /\ UNCHANGED <<shadow, deleted>>
                   ELSE /\ Finish(p, "delete", [status |-> 200, body |-> <<[ok |-> TRUE]>>])
                        /\ deleted' = deleted \cup {oid}
                        /\ shadow' = { d \in shadow : d._id # oid }
    /\ UNCHANGED <<db, nextId, clock>>

Next ==
    \E p \in Procs :
        \/ list_entries(p)
        \/ \E entry \in CreatePayloads : create_entry(p, entry)
        \/ create_find(p)
        \/ \E entry_id \in EntryIds, payload \in UpdatePayloads :
              update_entry(p, entry_id, payload)
        \/ update_one(p)
        \/ update_find(p)
        \/ \E entry_id \in EntryIds : delete_entry(p, entry_id)

Spec == Init /\ [][Next]_vars

----------------------------------------------------------------------------
(* Vocabulary of the properties *)

Available == db # "None"

\* the well-formed ids among the path parameters: 24 hexadecimal digits
WellFormedIds ==
    { s \in EntryIds : Len(s) = 24 /\ \A i \in DOMAIN s : s[i] \in HexLower \cup HexUpper }

WellFormed(s) == s \in WellFormedIds

\* the id each of them names, whatever the case of its digits
Named == [s \in WellFormedIds |-> [hex |-> [i \in DOMAIN s |-> ToLower(s[i])]]]

IdOf(s) == Named[s]

Exists(c, oid) == \E d \in c : d._id = oid

TheDoc(c, oid) == CHOOSE d \in c : d._id = oid

EmptyPayload(u) == \A f \in Fields : u[f] = <<>>

Supplied(u) == { f \in Fields : u[f] # <<>> }

StoreUntouched == coll' = coll

\* what every step in which idle worker p takes a request on route `op` does:
\* it answers on that route, or it moves the worker on to its next store call
Routed(p, op) == pc[p] = "idle" /\ (resp'.op = op \/ pc'[p] # "idle")

\* body is ordered by date descending, then time descending
Descending(body) ==
    \A i \in 1..(Len(body) - 1) :
        \/ body[i].date > body[i + 1].date
        \/ body[i].date = body[i + 1].date /\ body[i].time >= body[i + 1].time

----------------------------------------------------------------------------
(* C1: a successful non-empty update changes exactly the supplied non-null   *)
(* fields of the matched entry and sets updated_at; omitted or null fields,  *)
(* _id and created_at keep their values; every other entry is unchanged; no  *)
(* other step of the update touches the store.                               *)
C1_UpdateFrame ==
    [][\A p \in Procs :
         /\ (Available /\ Routed(p, "update")) =>
              \A i \in WellFormedIds, u \in UpdatePayloads :
                 (~EmptyPayload(u) /\ update_entry(p, i, u)) =>
                    /\ StoreUntouched
                    /\ pc'[p] = "update_one"
                    /\ local'[p].oid = IdOf(i)
                    /\ DOMAIN local'[p].updates = Supplied(u) \cup {"updated_at"}
                    /\ \A f \in Supplied(u) : local'[p].updates[f] = u[f][1]
                    /\ local'[p].updates.updated_at = clock
         /\ (update_one(p) /\ Exists(coll, local[p].oid)) =>
              LET oid == local[p].oid
                  upd == local[p].updates
                  old == TheDoc(coll, oid)
              IN  /\ Cardinality(Matching(coll', oid)) = 1
                  /\ coll' \ Matching(coll', oid) = coll \ {old}
                  /\ LET new == TheDoc(coll', oid)
                     IN  /\ DOMAIN new = DOMAIN old \cup DOMAIN upd
                         /\ \A k \in DOMAIN upd : new[k] = upd[k]
                         /\ \A k \in DOMAIN old \ DOMAIN upd : new[k] = old[k]
                         /\ new._id = old._id
                         /\ new.created_at = old.created_at
                         /\ new.updated_at = upd.updated_at
         /\ update_find(p) => StoreUntouched
    ]_vars

\* an update of quantity alone has been written: quantity and updated_at are
\* the request's, date, time, amount and created_at the seeded document's
C1_Witness ==
    \E p \in Procs :
        /\ pc[p] = "update_find"
        /\ DOMAIN local[p].updates = {"quantity", "updated_at"}
        /\ Exists(coll, local[p].oid)
        /\ LET d == TheDoc(coll, local[p].oid)
           IN  /\ d.quantity = 5
               /\ d.updated_at = local[p].updates.updated_at
               /\ \E s \in SeedDocs :
                     /\ s._id = d._id /\ s.date = d.date /\ s.time = d.time
                     /\ s.amount = d.amount /\ s.created_at = d.created_at
                     /\ s.quantity # d.quantity

----------------------------------------------------------------------------
(* C2: an update with an empty payload and a well-formed id leaves the store *)
(* as it is; it answers with the entry as stored (no updated_at set or       *)
(* changed) when the entry exists, and with 404 when it does not.            *)
C2_EmptyUpdateNoOp ==
    [][\A p \in Procs :
         (Available /\ Routed(p, "update")) =>
            \A i \in WellFormedIds, u \in UpdatePayloads :
               (EmptyPayload(u) /\ update_entry(p, i, u)) =>
                  /\ StoreUntouched
                  /\ clock' = clock
                  /\ pc'[p] = "idle"
                  /\ resp'.op = "update"
                  /\ IF Exists(coll, IdOf(i))
                     THEN /\ resp'.status = 200
                          /\ resp'.body = << _serialize(TheDoc(coll, IdOf(i))) >>
                     ELSE /\ resp'.status = 404
                          /\ resp'.body = <<>>
    ]_vars

\* an update has answered 200 with an entry that carries no updated_at: only
\* an empty update of a never-updated entry does
C2_Witness ==
    /\ resp.op = "update"
    /\ resp.status = 200
    /\ Len(resp.body) = 1
    /\ "updated_at" \notin DOMAIN resp.body[1]
    /\ \E d \in coll : Str(d._id) = resp.body[1].id /\ "updated_at" \notin DOMAIN d

----------------------------------------------------------------------------
----------------------------------------------------------------------------
(* C4: without a store, list answers 200 with the empty list; create, update *)
(* and delete answer 503 whatever the id or payload (also for a malformed    *)
(* id); no operation changes any state.                                      *)
C4_Unavailable ==
    [][~Available =>
       \A p \in Procs :
         /\ list_entries(p) => resp' = [op |-> "list", status |-> 200, body |-> <<>>]
         /\ \A e \in CreatePayloads :
              create_entry(p, e) => resp' = [op |-> "create", status |-> 503, body |-> <<>>]
         /\ \A i \in EntryIds, u \in UpdatePayloads :
              update_entry(p, i, u) => resp' = [op |-> "update", status |-> 503, body |-> <<>>]
         /\ \A i \in EntryIds :
              delete_entry(p, i) => resp' = [op |-> "delete", status |-> 503, body |-> <<>>]
         /\ UNCHANGED <<db, coll, nextId, clock, pc, local, shadow, deleted>>
    ]_vars

\* without a store, an update has answered 503
C4_Witness ==
    /\ ~Available
    /\ resp = [op |-> "update", status |-> 503, body |-> <<>>]
    /\ coll = {}

----------------------------------------------------------------------------
(* C5: once delete_entry has succeeded for an id, no later list shows that   *)
(* id, every later delete or update of it answers 404, and no later create   *)
(* hands the id out again.                                                   *)
C5_DeletedStaysDeleted ==
    [][/\ \A oid \in deleted : ~Exists(coll, oid) /\ ~Exists(coll', oid)
       /\ deleted \subseteq deleted'
       /\ \A p \in Procs :
            /\ list_entries(p) =>
                 \A k \in DOMAIN resp'.body :
                     /\ "id" \in DOMAIN resp'.body[k]
                     /\ \A oid \in deleted : resp'.body[k].id # Str(oid)
            /\ (deleted # {} /\ Routed(p, "delete")) =>
                 \A i \in WellFormedIds :
                    (IdOf(i) \in deleted /\ delete_entry(p, i)) =>
                       resp' = [op |-> "delete", status |-> 404, body |-> <<>>]
            /\ (deleted # {} /\ Routed(p, "update")) =>
                 \A i \in WellFormedIds, u \in UpdatePayloads :
                    (IdOf(i) \in deleted /\ EmptyPayload(u) /\ update_entry(p, i, u)) =>
                       resp' = [op |-> "update", status |-> 404, body |-> <<>>]
            /\ (update_one(p) /\ local[p].oid \in deleted) =>
                  resp' = [op |-> "update", status |-> 404, body |-> <<>>]
            /\ (Available /\ Routed(p, "create")) =>
                 \A e \in CreatePayloads :
                    create_entry(p, e) => local'[p].oid \notin deleted
    ]_vars

\* after a delete and a later create, a list has answered with the stored
\* entries
C5_Witness ==
    /\ deleted # {}
    /\ nextId > FirstId
    /\ resp.op = "list"
    /\ resp.status = 200
    /\ Len(resp.body) >= 1

----------------------------------------------------------------------------
(* C6: with the store available, a list holds, for every entry created and   *)
(* not deleted, exactly one element with that id and the entry's current     *)
(* field values; every listed id is non-empty, no two elements share an id,  *)
(* and a create never hands out an id handed out before.                     *)
C6_ListComplete ==
    [][Available =>
       \A p \in Procs :
         /\ list_entries(p) =>
              LET body == resp'.body
              IN  /\ Len(body) = Cardinality(shadow)
                  /\ \A k \in DOMAIN body : "id" \in DOMAIN body[k] /\ body[k].id # <<>>
                  /\ \A k, m \in DOMAIN body : k # m => body[k].id # body[m].id
                  /\ \A d \in shadow :
                        \E k \in DOMAIN body :
                            /\ body[k].id = Str(d._id)
                            /\ \A f \in Fields : body[k][f] = d[f]
         /\ \A e \in CreatePayloads :
              create_entry(p, e) =>
                 /\ ~Exists(coll, local'[p].oid)
                 /\ local'[p].oid \notin deleted
                 /\ Cardinality(coll') = Cardinality(coll) + 1
    ]_vars

\* a list has answered with two entries, one of them created in this run
C6_Witness ==
    /\ resp.op = "list"
    /\ resp.status = 200
    /\ Len(resp.body) = 2
    /\ \E k \in 1..2 : resp.body[k].id = Str(GenId(FirstId))

----------------------------------------------------------------------------
(* C7: a list is ordered by date descending and, among equal dates, by time  *)
(* descending, and is a permutation of the stored entries.                   *)
C7_ListSorted ==
    [][Available =>
       \A p \in Procs :
         list_entries(p) =>
            /\ resp'.status = 200
            /\ Descending(resp'.body)
            /\ Len(resp'.body) = Cardinality(coll)
            /\ { resp'.body[k] : k \in DOMAIN resp'.body } = { _serialize(d) : d \in coll }
    ]_vars

\* a list has answered with two entries of one date, told apart by time
C7_Witness ==
    /\ resp.op = "list"
    /\ Len(resp.body) = 2
    /\ resp.body[1].date = resp.body[2].date
    /\ resp.body[1].time > resp.body[2].time

----------------------------------------------------------------------------
(* C8: a non-empty update that matched an entry returns the entry as it      *)
(* stood right after its own write: the response is 200 and carries, for     *)
(* every field the update supplied and for updated_at, the value this update *)
(* wrote.                                                                    *)
C8_UpdateReturnsOwnWrite ==
    [][\A p \in Procs :
         update_find(p) =>
            /\ resp'.status = 200
            /\ Len(resp'.body) = 1
            /\ resp'.body[1].id = Str(local[p].oid)
            /\ \A k \in DOMAIN local[p].updates :
                  /\ k \in DOMAIN resp'.body[1]
                  /\ resp'.body[1][k] =
                        IF k \in DatetimeFields THEN isoformat(local[p].updates[k])
                        ELSE local[p].updates[k]
    ]_vars

----------------------------------------------------------------------------
(* C9: a create issued with the store available returns the stored entry:    *)
(* the payload's date, time, quantity and amount, a non-empty id and         *)
(* created_at.                                                               *)
C9_CreateReturnsInserted ==
    [][\A p \in Procs :
         create_find(p) =>
            /\ resp'.status = 200
            /\ Len(resp'.body) = 1
            /\ resp'.body[1].id = Str(local[p].oid)
            /\ resp'.body[1].id # <<>>
            /\ "created_at" \in DOMAIN resp'.body[1]
            /\ \A f \in Fields : resp'.body[1][f] = local[p].entry[f]
    ]_vars

----------------------------------------------------------------------------
(* C10: concurrent updates of one entry are applied field by field in the    *)
(* order the store applies their writes: each field holds the value of the   *)
(* last write that supplied it, a field only one update supplied holds that  *)
(* update's value, a field none supplied is as inserted; nothing is lost and *)
(* nothing appears that no request wrote.                                    *)
C10_LastWriteWins == coll = shadow

\* both workers have written a different quantity to the same entry, each
\* while the other was under way
C10_Witness ==
    \E p, q \in Procs :
        /\ p # q
        /\ pc[p] = "update_find" /\ pc[q] = "update_find"
        /\ local[p].oid = local[q].oid
        /\ Exists(coll, local[p].oid)
        /\ local[p].updates.quantity # local[q].updates.quantity
        /\ "date" \in DOMAIN local[q].updates /\ "date" \notin DOMAIN local[p].updates

====
